---- MODULE Spec2Model ----
(***************************************************************************)
(* A model of pywb/rewrite/templateview.py: the template views             *)
(* (BaseInsertView, HeadInsertView, TopFrameView), the JinjaEnv filter     *)
(* registry and loader list, and the PkgResResolver.                       *)
(*                                                                         *)
(* Python values are tagged with their type, <<type, payload>>, so that a  *)
(* str 'true' and a bool True are distinct values that can be compared.    *)
(* A dict is a function from its keys; the empty dict is <<>>.             *)
(***************************************************************************)
EXTENDS Integers, Sequences, FiniteSets, TLC

VARIABLES banner_view,   \* BaseInsertView.banner_view is configured
          request,       \* the request in flight, if any, and its request context
          closure,       \* the make_head_insert closure of the request in flight
          last,          \* the last view call: its arguments, collaborator calls, result
          jenv,          \* a JinjaEnv: self.filters, jinja_env.filters, the loaders
          regs,          \* the template_filter registrations made so far, oldest first
          resolved       \* the last PkgResResolver.resolve_source call

vars == <<banner_view, request, closure, last, jenv, regs, resolved>>

----------------------------------------------------------------------------
(* Python values *)

Str(s) == <<"str", s>>
Bool(b) == <<"bool", b>>
Dict(d) == <<"dict", d>>
Obj(o) == <<"obj", o>>
IntVal(n) == <<"int", n>>
None == <<"none", "None">>

EmptyDict == <<>>

\* bool(v) of a Python value
Truthy(v) ==
    CASE v[1] = "bool" -> v[2]
      [] v[1] = "str" -> v[2] # ""
      [] v[1] = "dict" -> DOMAIN v[2] # {}
      [] v[1] = "none" -> FALSE
      [] OTHER -> TRUE

\* d.update(e): the keys of e are set in d, e winning on a collision
Update(d, e) == [k \in DOMAIN d \cup DOMAIN e |-> IF k \in DOMAIN e THEN e[k] ELSE d[k]]

\* d[k] = v
Put(d, k, v) == Update(d, k :> v)

----------------------------------------------------------------------------
(* The request context (the WSGI environ) and its well-known keys *)

TemplateParamsKey == "pywb.template_params"
TemplateDirKey == "pywb.templates_dir"
HostPrefixKey == "pywb.host_prefix"
AppPrefixKey == "pywb.app_prefix"
ProxyHostKey == "wsgiprox.proxy_host"

\* env.get(key, default) for the str-valued keys
EnvGet(env, key, default) == IF key \in DOMAIN env THEN env[key] ELSE default

----------------------------------------------------------------------------
(* The renderer collaborator (jinja2): get_template and Template.render.   *)
(* Its answers are inputs: o.ovr and o.def are what get_template answers   *)
(* for the override path and the plain insert file ("found", "notfound"    *)
(* for TemplateNotFound, "error" for any other exception), o.rend what     *)
(* render answers ("ok", "error").                                         *)

LookupOutcomes == {"found", "notfound", "error"}
RenderOutcomes == {"ok", "error"}
Oracles == [ovr : LookupOutcomes, def : LookupOutcomes, rend : RenderOutcomes]

\* An answer to a call that is never made is not an input: it is fixed here,
\* so that the same call is not enumerated once per unread answer.
AllFound == [ovr |-> "found", def |-> "found", rend |-> "ok"]

\* the string a template renders to
Rendered(path) == "<html of " \o path \o ">"

----------------------------------------------------------------------------
(* BaseInsertView.render_to_string *)

\* the override directory is used when env.get(env_template_dir_key) is truthy
HasOverrideDir(env) == TemplateDirKey \in DOMAIN env /\ env[TemplateDirKey] # ""

OverridePath(env, insert_file) == env[TemplateDirKey] \o "/" \o insert_file

\* (variant: the plain insert file is looked up before the override path)
LookupsDefaultFirst(env, insert_file, o) ==
    IF o.def = "notfound" /\ HasOverrideDir(env)
    THEN << [path |-> insert_file, outcome |-> o.def],
            [path |-> OverridePath(env, insert_file), outcome |-> o.ovr] >>
    ELSE << [path |-> insert_file, outcome |-> o.def] >>

\* the get_template calls of one render_to_string, in order, each with its answer
Lookups(env, insert_file, o) ==
    IF HasOverrideDir(env)
    THEN IF o.ovr = "notfound"
         THEN << [path |-> OverridePath(env, insert_file), outcome |-> o.ovr],
                 [path |-> insert_file, outcome |-> o.def] >>
         ELSE << [path |-> OverridePath(env, insert_file), outcome |-> o.ovr] >>
    ELSE << [path |-> insert_file, outcome |-> o.def] >>

\* o answers only calls that render_to_string makes for env
Asked(env, o) ==
    /\ ~HasOverrideDir(env) => o.ovr = "found"
    /\ (HasOverrideDir(env) /\ o.ovr # "notfound") => o.def = "found"
    /\ (HasOverrideDir(env) /\ o.ovr = "error") => o.rend = "ok"
    /\ (~(HasOverrideDir(env) /\ o.ovr = "found") /\ o.def # "found") => o.rend = "ok"

\* o makes render_to_string return a string for env
Succeeds(env, o) ==
    /\ o.rend = "ok"
    /\ IF HasOverrideDir(env) /\ o.ovr # "notfound" THEN o.ovr = "found" ELSE o.def = "found"

StaticPrefix(env) ==
    EnvGet(env, HostPrefixKey, "") \o EnvGet(env, AppPrefixKey, "") \o "/static"

\* (variant: kwargs are merged over the parameter bag)
BagUpdateKwargsWin(env, kwargs) ==
    IF TemplateParamsKey \in DOMAIN env
    THEN Update(env[TemplateParamsKey], kwargs)
    ELSE kwargs

\* kwargs.update(params): the request-context parameter bag, when it is truthy,
\* is merged over kwargs
BagUpdate(env, kwargs) ==
    IF TemplateParamsKey \in DOMAIN env /\ DOMAIN env[TemplateParamsKey] # {}
    THEN Update(kwargs, env[TemplateParamsKey])
    ELSE kwargs

\* the keyword arguments of template.render
MergedParams(env, kwargs) ==
    Put(Put(BagUpdate(env, kwargs), "env", Dict(env)),
        "static_prefix", Str(StaticPrefix(env)))

\* (variant: every failure is swallowed and an empty string returned)
RenderToStringSwallowAll(view, env, insert_file, kwargs, o) ==
    LET ls == Lookups(env, insert_file, o)
        hit == ls[Len(ls)]
        ok == hit.outcome = "found" /\ o.rend = "ok"
    IN [view |-> view, insert_file |-> insert_file, kwargs |-> kwargs,
        lookups |-> ls,
        rendered |-> hit.outcome = "found",
        render_outcome |-> IF hit.outcome = "found" THEN o.rend ELSE "",
        template |-> IF hit.outcome = "found" THEN hit.path ELSE "",
        params |-> IF hit.outcome = "found" THEN MergedParams(env, kwargs) ELSE EmptyDict,
        status |-> "ok",
        error |-> "",
        out |-> IF ok THEN Rendered(hit.path) ELSE ""]

\* One call of render_to_string: the lookups it makes, whether and what it
\* renders, and how it ends (status "ok" with the output, or "error").
RenderToString(view, env, insert_file, kwargs, o) ==
    LET ls == Lookups(env, insert_file, o)
        hit == ls[Len(ls)]
        found == hit.outcome = "found"
        ok == found /\ o.rend = "ok"
    IN [view |-> view, insert_file |-> insert_file, kwargs |-> kwargs,
        lookups |-> ls,
        rendered |-> found,
        render_outcome |-> IF found THEN o.rend ELSE "",
        template |-> IF found THEN hit.path ELSE "",
        params |-> IF found THEN MergedParams(env, kwargs) ELSE EmptyDict,
        status |-> IF ok THEN "ok" ELSE "error",
        error |-> CASE ok -> ""
                    [] hit.outcome = "notfound" -> "TemplateNotFound"
                    [] hit.outcome = "error" -> "LookupError"
                    [] OTHER -> "RenderError",
        out |-> IF ok THEN Rendered(hit.path) ELSE ""]

----------------------------------------------------------------------------
(* Collaborators of the views that live outside this file *)

\* WbUrl.to_str(mod=...): the url re-serialized with mod as its modifier
WbUrlToStr(wb_url, mod) ==
    LET tsmod == wb_url.timestamp \o mod
    IN IF tsmod # "" THEN tsmod \o "/" \o wb_url.url ELSE wb_url.url

\* WbUrl.get_url()
WbUrlGetUrl(wb_url) == wb_url.url

\* warcio's timestamp_to_sec, on the timestamps of the model
TimestampToSec(ts) ==
    CASE ts = "20140101000000" -> 1388534400
      [] ts = "19960101000000" -> 820454400
      [] OTHER -> 0

\* d.get(k): None when the key is absent
Get(d, k) == IF k \in DOMAIN d THEN d[k] ELSE None

\* d.get(k, default)
GetDefault(d, k, default) == IF k \in DOMAIN d THEN d[k] ELSE default

BannerFile == "banner.html"
HeadInsertFile == "head_insert.html"
FrameInsertFile == "frame_insert.html"
BaseFile == "base.html"

----------------------------------------------------------------------------
(* HeadInsertView.create_insert_func *)

\* (variant: the native truth value instead of the string)
FramedFlagNative(is_framed) == Bool(Truthy(is_framed))

\* 'true' if is_framed else 'false'
FramedFlag(is_framed) == Str(IF Truthy(is_framed) THEN "true" ELSE "false")

\* (variant: the proxy section's collection name is not compared)
ProxyMatchesAnyColl(params, coll) ==
    /\ Get(params, "config") # None
    /\ Get(Get(params, "config")[2], "proxy") # None

\* there is a config with a proxy section whose 'coll' is coll
ProxyMatches(params, coll) ==
    /\ Get(params, "config") # None
    /\ Get(Get(params, "config")[2], "proxy") # None
    /\ Get(Get(Get(params, "config")[2], "proxy")[2], "coll") = coll

\* 'w' if use_wombat, then 'p' if use_preserve_worker
WombatMode(proxy) ==
    (IF Truthy(GetDefault(proxy, "use_wombat", Bool(FALSE))) THEN "w" ELSE "")
    \o (IF Truthy(GetDefault(proxy, "use_preserve_worker", Bool(FALSE))) THEN "p" ELSE "")

\* the params the closure captures
CreateInsertFuncParams(wb_url, wb_prefix, host_prefix, top_url, is_framed, coll, kwargs) ==
    LET base == Update(kwargs,
                       [host_prefix |-> Str(host_prefix),
                        wb_prefix |-> Str(wb_prefix),
                        wb_url |-> Obj(wb_url),
                        top_url |-> Str(top_url),
                        coll |-> coll,
                        is_framed |-> FramedFlag(is_framed)])
    IN IF ProxyMatches(base, coll)
       THEN Put(base, "wombat_mode", Str(WombatMode(base["config"][2]["proxy"][2])))
       ELSE base

----------------------------------------------------------------------------
(* make_head_insert, the closure create_insert_func returns *)

\* 'true' if cdx.get('is_live') else 'false'
LiveFlag(cdx) == Str(IF Truthy(Get(cdx, "is_live")) THEN "true" ELSE "false")

\* the closure's params after its first three assignments
HeadInsertParams(params, include_ts, cdx) ==
    Update(params,
           [wombat_ts |-> IF include_ts THEN cdx["timestamp"] ELSE Str(""),
            wombat_sec |-> IntVal(TimestampToSec(cdx["timestamp"][2])),
            is_live |-> LiveFlag(cdx)])

\* (variant: a failed banner render is ignored and the insert rendered)
BannerIgnoredThenInsert(has_banner, view, env, insert_file, params, extra, ob, oi) ==
    LET b == RenderToString("banner", env, BannerFile, Update(params, extra), ob)
        withb == IF has_banner /\ b.status = "ok"
                 THEN Put(params, "banner_html", Str(b.out)) ELSE params
        r == RenderToString(view, env, insert_file, Update(withb, extra), oi)
    IN [rts |-> IF has_banner THEN <<b, r>> ELSE <<r>>,
        params |-> withb, status |-> r.status, error |-> r.error, out |-> r.out]

\* A view call that renders the banner and then the insert: the calls of
\* render_to_string it makes in order, the params it is left with, its result.
\* extra is what is passed beside params (cdx=cdx for the head insert).
BannerThenInsert(has_banner, view, env, insert_file, params, extra, ob, oi) ==
    LET b == RenderToString("banner", env, BannerFile, Update(params, extra), ob)
        withb == IF has_banner THEN Put(params, "banner_html", Str(b.out)) ELSE params
        r == RenderToString(view, env, insert_file, Update(withb, extra), oi)
    IN IF has_banner /\ b.status # "ok"
       THEN [rts |-> <<b>>, params |-> params,
             status |-> b.status, error |-> b.error, out |-> ""]
       ELSE [rts |-> IF has_banner THEN <<b, r>> ELSE <<r>>,
             params |-> withb, status |-> r.status, error |-> r.error, out |-> r.out]

----------------------------------------------------------------------------
(* TopFrameView.get_top_frame *)

\* (variant: the fixed params are merged over extra_params)
MergeExtraFixedWin(params, extra_params) ==
    IF Truthy(extra_params) THEN Update(extra_params[2], params) ELSE params

\* params.update(extra_params) when extra_params is truthy
MergeExtra(params, extra_params) ==
    IF Truthy(extra_params) THEN Update(params, extra_params[2]) ELSE params

TopFrameParams(wb_url, wb_prefix, host_prefix, env, frame_mod, replay_mod, coll, extra_params, now) ==
    MergeExtra([host_prefix |-> Str(host_prefix),
                wb_prefix |-> Str(wb_prefix),
                wb_url |-> Obj(wb_url),
                coll |-> coll,
                options |-> Dict([frame_mod |-> Str(frame_mod),
                                  replay_mod |-> Str(replay_mod)]),
                embed_url |-> Str(WbUrlToStr(wb_url, replay_mod)),
                is_proxy |-> Bool(ProxyHostKey \in DOMAIN env),
                timestamp |-> Str(IF wb_url.timestamp # "" THEN wb_url.timestamp ELSE now),
                url |-> Str(WbUrlGetUrl(wb_url))],
               extra_params)

----------------------------------------------------------------------------
(* Bounds and input sets *)

\* how often one make_head_insert closure is invoked
MaxInvoke == 1

OptKey(k, vs) == {EmptyDict} \cup {k :> v : v \in vs}

\* request-context parameter bags: empty, colliding with the views' own
\* params (with values of the wrong type), colliding with the computed fields
ViewBag == [coll |-> Str("bagcoll"), is_framed |-> Bool(TRUE), is_live |-> Bool(FALSE),
            banner_html |-> Str("bag banner")]

Bags ==
    { EmptyDict,
      ViewBag,
      [env |-> Str("bag env"), static_prefix |-> Str("/bag/static"),
       title |-> Str("bag title")] }

BaseEnvs ==
    { a @@ b @@ c @@ d : a \in OptKey(TemplateDirKey, {"", "colls/demo/templates"}),
                         b \in OptKey(TemplateParamsKey, Bags),
                         c \in OptKey(HostPrefixKey, {"http://h"}),
                         d \in OptKey(AppPrefixKey, {"/app"}) }

\* the view requests: with and without an override directory and a colliding
\* parameter bag; the one with only an override directory arrived through the proxy
ViewEnvs ==
    { EmptyDict,
      TemplateParamsKey :> ViewBag,
      (TemplateDirKey :> "colls/demo/templates") @@ (ProxyHostKey :> "proxy.host"),
      (TemplateDirKey :> "colls/demo/templates") @@ (TemplateParamsKey :> ViewBag) }

BaseKwargs ==
    { EmptyDict,
      [coll |-> Str("demo"), title |-> Str("kw title")],
      [env |-> Str("kw env"), static_prefix |-> Str("/kw/static"), coll |-> Str("demo")] }

WbUrls == [timestamp : {"", "20140101000000"}, mod : {"", "if_", "mp_"},
           url : {"http://example.com/"}]

HeadWbUrls == {w \in WbUrls : w.timestamp # "" /\ w.mod = "mp_"}

Proxies ==
    { [coll |-> Str("demo"), use_wombat |-> Bool(w), use_preserve_worker |-> Bool(p)] :
        w \in BOOLEAN, p \in BOOLEAN }
    \cup { [coll |-> Str("demo")], [use_wombat |-> Bool(TRUE)] }

HeadKwargs ==
    { EmptyDict,
      [config |-> None],
      [config |-> Dict(EmptyDict)],
      [wombat_mode |-> Str("preset"), is_live |-> Bool(TRUE),
       banner_html |-> Str("kw banner")] }
    \cup { [config |-> Dict([proxy |-> Dict(p)])] : p \in Proxies }

FramedArgs == {Bool(TRUE), Bool(FALSE)}
Colls == {Str("demo"), Str("")}
TopColls == {Str("demo")}

Cdxs == { [timestamp |-> Str("20140101000000")],
          [timestamp |-> Str("19960101000000"), is_live |-> Bool(TRUE)] }

FrameMods == {"tf_"}
ReplayMods == {"mp_", ""}
Nows == {"20261101120000"}

TopExtraParams ==
    { None,
      Dict(EmptyDict),
      Dict([embed_url |-> Str("http://embed/"), title |-> Str("extra title")]),
      Dict([timestamp |-> Str("19960101000000"), is_proxy |-> Str("yes")]) }

WbPrefix == "http://h/demo/"
HostPrefix == "http://h"

----------------------------------------------------------------------------
(* State *)

NoRequest == [active |-> FALSE, env |-> EmptyDict]

NoClosure == [active |-> FALSE, params |-> EmptyDict, include_ts |-> FALSE, calls |-> 0]

NoCall == [op |-> "none", args |-> EmptyDict, rts |-> <<>>,
           status |-> "", error |-> "", out |-> ""]

NoJenv == [constructed |-> FALSE, args |-> EmptyDict, filters |-> EmptyDict,
           jinja_filters |-> EmptyDict, loaders |-> <<>>]
NoResolve == [op |-> "none", item |-> None, rf |-> "", delegated |-> FALSE,
              status |-> "", result |-> None]

ViewsIdle == request = NoRequest /\ closure = NoClosure /\ last = NoCall
OthersIdle == jenv = NoJenv /\ regs = <<>> /\ resolved = NoResolve

InitViews == banner_view \in BOOLEAN /\ ViewsIdle /\ OthersIdle

----------------------------------------------------------------------------
(* The view calls. A request arrives with its request context, the views   *)
(* are called for it, and it ends: rendering is synchronous and keeps no    *)
(* state between requests.                                                  *)

BeginRequest(env) ==
    /\ ~request.active
    /\ request' = [active |-> TRUE, env |-> env]
    /\ UNCHANGED <<banner_view, closure, last, jenv, regs, resolved>>

EndRequest ==
    /\ request.active
    /\ last.op # "none"
    /\ request' = NoRequest
    /\ closure' = NoClosure
    /\ last' = NoCall
    /\ UNCHANGED <<banner_view, jenv, regs, resolved>>

\* ob answers the banner's calls and oi the insert's, when they are made
AskedBoth(env, ob, oi) ==
    /\ IF banner_view THEN Asked(env, ob) ELSE ob = AllFound
    /\ IF banner_view /\ ~Succeeds(env, ob) THEN oi = AllFound ELSE Asked(env, oi)

\* BaseInsertView.render_to_string, called directly
CallRenderToString(kwargs, o) ==
    /\ request.active
    /\ last.op = "none"
    /\ Asked(request.env, o)
    /\ LET r == RenderToString("base", request.env, BaseFile, kwargs, o)
       IN last' = [op |-> "render_to_string", args |-> kwargs,
                   rts |-> <<r>>, status |-> r.status, error |-> r.error, out |-> r.out]
    /\ UNCHANGED <<banner_view, request, closure, jenv, regs, resolved>>

\* HeadInsertView.create_insert_func: builds the params and returns the closure
CreateInsertFunc(wb_url, top_url, is_framed, coll, include_ts, kwargs) ==
    /\ request.active
    /\ last.op = "none"
    /\ LET params == CreateInsertFuncParams(wb_url, WbPrefix, HostPrefix, top_url,
                                            is_framed, coll, kwargs)
       IN /\ closure' = [active |-> TRUE, params |-> params,
                         include_ts |-> include_ts, calls |-> 0]
          /\ last' = [op |-> "create_insert_func",
                      args |-> [is_framed |-> is_framed, coll |-> coll, kwargs |-> kwargs],
                      rts |-> <<>>, status |-> "ok", error |-> "", out |-> ""]
    /\ UNCHANGED <<banner_view, request, jenv, regs, resolved>>

\* make_head_insert(rule, cdx): the closure is invoked
MakeHeadInsert(cdx, ob, oi) ==
    /\ closure.active
    /\ closure.calls < MaxInvoke
    /\ AskedBoth(request.env, ob, oi)
    /\ LET params == HeadInsertParams(closure.params, closure.include_ts, cdx)
           r == BannerThenInsert(banner_view, "head", request.env, HeadInsertFile,
                                 params, [cdx |-> Dict(cdx)], ob, oi)
       IN /\ closure' = [closure EXCEPT !.params = r.params, !.calls = @ + 1]
          /\ last' = [op |-> "make_head_insert",
                      args |-> [cdx |-> cdx, before |-> closure.params],
                      rts |-> r.rts, status |-> r.status, error |-> r.error,
                      out |-> r.out]
    /\ UNCHANGED <<banner_view, request, jenv, regs, resolved>>

\* TopFrameView.get_top_frame
GetTopFrame(wb_url, frame_mod, replay_mod, coll, extra_params, now, ob, oi) ==
    /\ request.active
    /\ last.op = "none"
    /\ AskedBoth(request.env, ob, oi)
    /\ LET params == TopFrameParams(wb_url, WbPrefix, HostPrefix, request.env, frame_mod,
                                    replay_mod, coll, extra_params, now)
           r == BannerThenInsert(banner_view, "top", request.env, FrameInsertFile,
                                 params, EmptyDict, ob, oi)
       IN last' = [op |-> "get_top_frame",
                   args |-> [wb_url |-> wb_url, frame_mod |-> frame_mod,
                             replay_mod |-> replay_mod, coll |-> coll,
                             extra_params |-> extra_params, now |-> now],
                   rts |-> r.rts, status |-> r.status, error |-> r.error, out |-> r.out]
    /\ UNCHANGED <<banner_view, request, closure, jenv, regs, resolved>>

\* the answers the collaborator can give to the calls made for env
OraclesFor(env) == {o \in Oracles : Asked(env, o)}
BannerOracles(env) == IF banner_view THEN OraclesFor(env) ELSE {AllFound}
InsertOracles(env, ob) ==
    IF banner_view /\ ~Succeeds(env, ob) THEN {AllFound} ELSE OraclesFor(env)

\* a view can be called for the request in flight
CanCall == request.active /\ last.op = "none"

NextBase ==
    \/ \E env \in BaseEnvs : BeginRequest(env)
    \/ /\ CanCall
       /\ \E kwargs \in BaseKwargs, o \in OraclesFor(request.env) :
            CallRenderToString(kwargs, o)
    \/ EndRequest

SpecBase == InitViews /\ [][NextBase]_vars

NextViews ==
    \/ \E env \in ViewEnvs : BeginRequest(env)
    \/ /\ CanCall
       /\ \E wb_url \in HeadWbUrls, is_framed \in FramedArgs,
             coll \in Colls, include_ts \in BOOLEAN, kwargs \in HeadKwargs :
               CreateInsertFunc(wb_url, "http://h/demo/" \o WbUrlToStr(wb_url, wb_url.mod),
                                is_framed, coll, include_ts, kwargs)
    \/ /\ closure.active /\ closure.calls < MaxInvoke
       /\ \E cdx \in Cdxs, ob \in BannerOracles(request.env) :
            \E oi \in InsertOracles(request.env, ob) : MakeHeadInsert(cdx, ob, oi)
    \/ /\ CanCall
       /\ \E wb_url \in WbUrls, frame_mod \in FrameMods,
             replay_mod \in ReplayMods, coll \in TopColls, extra_params \in TopExtraParams,
             now \in Nows, ob \in BannerOracles(request.env) :
               \E oi \in InsertOracles(request.env, ob) :
                 GetTopFrame(wb_url, frame_mod, replay_mod, coll, extra_params, now, ob, oi)
    \/ EndRequest

SpecViews == InitViews /\ [][NextViews]_vars

----------------------------------------------------------------------------
(* Properties of BaseInsertView.render_to_string *)

\* the render_to_string calls of the last view call
Calls == {last.rts[i] : i \in 1..Len(last.rts)}

\* the request-context parameter bag, empty when the request has none
ReqBag ==
    IF TemplateParamsKey \in DOMAIN request.env
    THEN request.env[TemplateParamsKey] ELSE EmptyDict

Computed == {"env", "static_prefix"}

ExpectedStaticPrefix ==
    (IF HostPrefixKey \in DOMAIN request.env THEN request.env[HostPrefixKey] ELSE "")
    \o (IF AppPrefixKey \in DOMAIN request.env THEN request.env[AppPrefixKey] ELSE "")
    \o "/static"

\* C1 as stated: on a key of both the parameter bag and kwargs (other than
\* 'env' and 'static_prefix') the renderer receives the kwargs value.
C1_KwargsOverrideBag ==
    \A r \in Calls : r.rendered =>
        \A k \in (DOMAIN ReqBag \cap DOMAIN r.kwargs) \ Computed :
            r.params[k] = r.kwargs[k]

\* C1, amended: the parameters of the render are kwargs, overridden by the
\* request-context parameter bag (the bag wins on every key of both), overridden
\* by the computed 'env' (the request context itself) and 'static_prefix'
\* (host_prefix + app_prefix + '/static', each defaulting to '').
C1_BagOverridesKwargs ==
    \A r \in Calls : r.rendered =>
        /\ DOMAIN r.params = DOMAIN r.kwargs \cup DOMAIN ReqBag \cup Computed
        /\ r.params["env"] = Dict(request.env)
        /\ r.params["static_prefix"] = Str(ExpectedStaticPrefix)
        /\ \A k \in DOMAIN ReqBag \ Computed : r.params[k] = ReqBag[k]
        /\ \A k \in DOMAIN r.kwargs \ (DOMAIN ReqBag \cup Computed) :
               r.params[k] = r.kwargs[k]

\* a render whose bag and kwargs share a key with different values, and whose
\* bag and kwargs both carry the computed keys
C1_Witness ==
    \E r \in Calls :
        /\ r.rendered
        /\ \E k \in (DOMAIN ReqBag \cap DOMAIN r.kwargs) \ Computed : ReqBag[k] # r.kwargs[k]
        /\ "env" \in DOMAIN r.kwargs
        /\ HostPrefixKey \in DOMAIN request.env
        /\ AppPrefixKey \notin DOMAIN request.env

OverrideDirSet ==
    TemplateDirKey \in DOMAIN request.env /\ request.env[TemplateDirKey] # ""

\* C2: with an override directory the first lookup is overrideDir/insert_file
\* and its template is used when found; the plain insert_file is looked up only
\* after a not-found answer to the override lookup, or when no override
\* directory is set, and then it is the only lookup.
C2_LookupSequence ==
    \A r \in Calls :
        /\ IF OverrideDirSet
           THEN /\ r.lookups[1].path = request.env[TemplateDirKey] \o "/" \o r.insert_file
                /\ Len(r.lookups) = (IF r.lookups[1].outcome = "notfound" THEN 2 ELSE 1)
                /\ Len(r.lookups) = 2 => r.lookups[2].path = r.insert_file
                /\ r.lookups[1].outcome = "found" =>
                       r.rendered /\ r.template = r.lookups[1].path
           ELSE /\ Len(r.lookups) = 1
                /\ r.lookups[1].path = r.insert_file
        /\ r.rendered => /\ r.lookups[Len(r.lookups)].outcome = "found"
                         /\ r.template = r.lookups[Len(r.lookups)].path

\* the override file is missing and the default template is rendered
C2_Witness ==
    \E r \in Calls :
        /\ OverrideDirSet
        /\ Len(r.lookups) = 2
        /\ r.rendered /\ r.template = r.insert_file

\* C3: a call returns a string only when a lookup found a template and its
\* render succeeded; the only failed collaborator call of a successful
\* render_to_string is a not-found answer to the override lookup; every other
\* failure (of a lookup or of the render) ends the call in that error with no
\* output, and nothing is rendered unless a lookup returned a template.
C3_OnlyOverrideNotFoundSwallowed ==
    \A r \in Calls :
        /\ r.status \in {"ok", "error"}
        /\ r.rendered <=> (\E i \in 1..Len(r.lookups) : r.lookups[i].outcome = "found")
        /\ r.status = "ok" =>
               /\ r.rendered /\ r.render_outcome = "ok" /\ r.out # ""
               /\ \A i \in 1..Len(r.lookups) : r.lookups[i].outcome # "found" =>
                      /\ i = 1 /\ OverrideDirSet
                      /\ r.lookups[i].path # r.insert_file
                      /\ r.lookups[i].outcome = "notfound"
        /\ r.status = "error" => r.out = "" /\ r.error # ""
        /\ \A i \in 1..Len(r.lookups) :
               (r.lookups[i].outcome = "error"
                \/ (r.lookups[i].outcome = "notfound" /\ r.lookups[i].path = r.insert_file))
               => /\ r.status = "error" /\ ~r.rendered /\ i = Len(r.lookups)
                  /\ r.error = (IF r.lookups[i].outcome = "notfound"
                                THEN "TemplateNotFound" ELSE "LookupError")
        /\ r.render_outcome = "error" => r.status = "error" /\ r.error = "RenderError"

\* the override lookup is swallowed and the default lookup then fails
C3_Witness ==
    \E r \in Calls :
        /\ Len(r.lookups) = 2
        /\ r.lookups[1].outcome = "notfound" /\ r.lookups[2].outcome = "notfound"
        /\ r.status = "error" /\ r.error = "TemplateNotFound"

----------------------------------------------------------------------------
(* Properties of HeadInsertView and TopFrameView *)

\* the extra params of the last create_insert_func carry a config with a proxy
\* section whose 'coll' is the collection name argument
ConfigMatches ==
    LET kw == last.args.kwargs
    IN /\ "config" \in DOMAIN kw
       /\ kw["config"][1] = "dict"
       /\ "proxy" \in DOMAIN kw["config"][2]
       /\ kw["config"][2]["proxy"][1] = "dict"
       /\ "coll" \in DOMAIN kw["config"][2]["proxy"][2]
       /\ kw["config"][2]["proxy"][2]["coll"] = last.args.coll

\* a flag of the proxy section is enabled
FlagOn(flag) ==
    LET proxy == last.args.kwargs["config"][2]["proxy"][2]
    IN flag \in DOMAIN proxy /\ proxy[flag] = Bool(TRUE)

\* C4: create_insert_func sets 'wombat_mode' exactly when the config's proxy
\* section names the collection, to 'w' if use_wombat then 'p' if
\* use_preserve_worker ('wp', 'w', 'p' or ''); otherwise it leaves the key as the
\* extra params had it (absent when they had none).
C4_WombatMode ==
    last.op = "create_insert_func" =>
        IF ConfigMatches
        THEN /\ "wombat_mode" \in DOMAIN closure.params
             /\ closure.params["wombat_mode"] =
                    Str(CASE FlagOn("use_wombat") /\ FlagOn("use_preserve_worker") -> "wp"
                          [] FlagOn("use_wombat") /\ ~FlagOn("use_preserve_worker") -> "w"
                          [] ~FlagOn("use_wombat") /\ FlagOn("use_preserve_worker") -> "p"
                          [] OTHER -> "")
        ELSE /\ "wombat_mode" \in DOMAIN closure.params
                    <=> "wombat_mode" \in DOMAIN last.args.kwargs
             /\ "wombat_mode" \in DOMAIN closure.params =>
                    closure.params["wombat_mode"] = last.args.kwargs["wombat_mode"]

\* the proxy section names the collection and enables only use_wombat
C4_Witness ==
    /\ last.op = "create_insert_func"
    /\ ConfigMatches
    /\ FlagOn("use_wombat") /\ ~FlagOn("use_preserve_worker")
    /\ closure.params["wombat_mode"] = Str("w")

StrFlags == {Str("true"), Str("false")}

\* the renders of the head insert template by the last make_head_insert
HeadRenders == {r \in Calls : last.op = "make_head_insert" /\ r.view = "head" /\ r.rendered}

\* C5 as stated: 'is_framed' and 'is_live' reach the renderer as 'true' or
\* 'false', whatever the request-context parameter bag contains.
C5_FlagsAlwaysStrings ==
    \A r \in HeadRenders :
        r.params["is_framed"] \in StrFlags /\ r.params["is_live"] \in StrFlags

\* C5, amended: make_head_insert always hands render_to_string 'is_framed' and
\* 'is_live' as the strings 'true' or 'false', for every is_framed argument, cdx
\* record and extra keyword argument; they reach the renderer as those strings
\* unless the request-context parameter bag has the key, and then the bag's
\* value reaches the renderer unchanged.
C5_FlagsStringsUnlessInBag ==
    \A r \in HeadRenders :
        /\ \A k \in {"is_framed", "is_live"} :
               /\ r.kwargs[k] \in StrFlags
               /\ r.params[k] = (IF k \in DOMAIN ReqBag THEN ReqBag[k] ELSE r.kwargs[k])
        /\ r.kwargs["is_live"] = Str("true") <=>
               ("is_live" \in DOMAIN last.args.cdx /\ last.args.cdx["is_live"] = Bool(TRUE))

\* a head insert render for a live record, with no parameter bag, whose extra
\* keyword arguments carried a native 'is_live'
C5_Witness ==
    \E r \in HeadRenders :
        /\ DOMAIN ReqBag = {}
        /\ "is_live" \in DOMAIN last.args.before
        /\ last.args.before["is_live"] = Bool(TRUE)
        /\ r.params["is_live"] = Str("true")
        /\ r.params["is_framed"] = Str("false")

\* the params a view has accumulated when it turns to the banner: of the
\* closure after its three assignments, of get_top_frame after the merge
InsertView == IF last.op = "make_head_insert" THEN "head" ELSE "top"

\* C6: with a banner view, the banner is rendered first, with the params the
\* insert is then rendered with (and the cdx record for the head insert), the
\* insert getting in addition the banner's output as 'banner_html'; a failed
\* banner render ends the call in the banner's error and the insert is not
\* rendered. Without a banner view only the insert is rendered and
\* 'banner_html' is not added.
C6_BannerFirst ==
    last.op \in {"make_head_insert", "get_top_frame"} =>
        IF banner_view
        THEN /\ Len(last.rts) \in {1, 2}
             /\ last.rts[1].view = "banner"
             /\ last.rts[1].insert_file = BannerFile
             /\ last.op = "make_head_insert" =>
                    /\ "cdx" \in DOMAIN last.rts[1].kwargs
                    /\ last.rts[1].kwargs["cdx"] = Dict(last.args.cdx)
             /\ Len(last.rts) = 2 <=> last.rts[1].status = "ok"
             /\ Len(last.rts) = 2 =>
                    /\ last.rts[2].view = InsertView
                    /\ last.rts[2].kwargs =
                           [k \in DOMAIN last.rts[1].kwargs \cup {"banner_html"} |->
                               IF k = "banner_html" THEN Str(last.rts[1].out)
                               ELSE last.rts[1].kwargs[k]]
                    /\ last.status = last.rts[2].status /\ last.out = last.rts[2].out
             /\ Len(last.rts) = 1 =>
                    /\ last.status = "error" /\ last.error = last.rts[1].error
                    /\ last.out = ""
        ELSE /\ Len(last.rts) = 1
             /\ last.rts[1].view = InsertView
             /\ "banner_html" \in DOMAIN last.rts[1].kwargs <=>
                    IF last.op = "make_head_insert"
                    THEN "banner_html" \in DOMAIN last.args.before
                    ELSE /\ last.args.extra_params[1] = "dict"
                         /\ "banner_html" \in DOMAIN last.args.extra_params[2]

\* the banner rendered and its output went into the head insert's params
C6_Witness ==
    /\ banner_view
    /\ last.op = "make_head_insert"
    /\ Len(last.rts) = 2
    /\ last.rts[2].rendered
    /\ last.rts[2].kwargs["banner_html"] = Str(last.rts[1].out)
    /\ last.rts[1].out # ""

\* the fixed parameter set of the last get_top_frame, from its arguments
TopFixed ==
    LET a == last.args
        w == a.wb_url
    IN [host_prefix |-> Str(HostPrefix),
        wb_prefix |-> Str(WbPrefix),
        wb_url |-> Obj(w),
        coll |-> a.coll,
        options |-> Dict([frame_mod |-> Str(a.frame_mod), replay_mod |-> Str(a.replay_mod)]),
        embed_url |-> Str(IF w.timestamp = "" /\ a.replay_mod = "" THEN w.url
                          ELSE w.timestamp \o a.replay_mod \o "/" \o w.url),
        is_proxy |-> Bool(ProxyHostKey \in DOMAIN request.env),
        timestamp |-> Str(IF w.timestamp = "" THEN a.now ELSE w.timestamp),
        url |-> Str(w.url)]

TopExtra == IF last.args.extra_params[1] = "dict" THEN last.args.extra_params[2] ELSE EmptyDict

\* C7: get_top_frame hands the base view (the banner's and the insert's
\* render_to_string) the fixed parameter set with extra_params merged over it:
\* an extra param wins on a key of both, every other fixed key keeps its
\* computed value; with replay_mod 'mp_' and no extra 'embed_url', embed_url is
\* the url re-serialized with the modifier 'mp_'.
C7_TopFrameParams ==
    last.op = "get_top_frame" =>
        \A r \in Calls :
            /\ DOMAIN r.kwargs \ {"banner_html"} =
                   (DOMAIN TopFixed \cup DOMAIN TopExtra) \ {"banner_html"}
            /\ \A k \in DOMAIN TopExtra \ {"banner_html"} : r.kwargs[k] = TopExtra[k]
            /\ \A k \in DOMAIN TopFixed \ DOMAIN TopExtra : r.kwargs[k] = TopFixed[k]
            /\ (last.args.replay_mod = "mp_" /\ "embed_url" \notin DOMAIN TopExtra) =>
                   r.kwargs["embed_url"] =
                       Str(last.args.wb_url.timestamp \o "mp_" \o "/" \o last.args.wb_url.url)

\* an extra param collides with a fixed key, and the url had another modifier
C7_Witness ==
    /\ last.op = "get_top_frame"
    /\ last.args.replay_mod = "mp_" /\ last.args.wb_url.mod = "if_"
    /\ "timestamp" \in DOMAIN TopExtra
    /\ \E r \in Calls : /\ r.view = "top"
                        /\ r.kwargs["timestamp"] = TopExtra["timestamp"]
                        /\ r.kwargs["timestamp"] # TopFixed["timestamp"]
                        /\ r.kwargs["embed_url"] = TopFixed["embed_url"]

----------------------------------------------------------------------------
(* JinjaEnv: the filter registry and the template loaders *)

\* how many template_filter registrations are made after construction
MaxRegs == 3

\* how many paths, and how many packages, a JinjaEnv is given
MaxRoots == 2

\* (variant: a name already registered keeps its function)
TemplateFilterFirstWins(filters, param, func) ==
    LET name == IF Truthy(param) THEN param[2] ELSE func.name
    IN IF name \in DOMAIN filters THEN filters ELSE Put(filters, name, func)

\* template_filter(param)(func): self.filters[param or func.__name__] = func
TemplateFilter(filters, param, func) ==
    Put(filters, IF Truthy(param) THEN param[2] ELSE func.name, func)

\* the registrations of _init_filters, in order
InitFilterRegs ==
    << [param |-> None, func |-> [name |-> "format_ts", by |-> "pywb"]],
       [param |-> Str("urlsplit"), func |-> [name |-> "get_urlsplit", by |-> "pywb"]],
       [param |-> None, func |-> [name |-> "tojson", by |-> "pywb"]] >>

RECURSIVE RegisterAll(_, _)
RegisterAll(filters, rs) ==
    IF rs = <<>> THEN filters
    ELSE RegisterAll(TemplateFilter(filters, rs[1].param, rs[1].func), Tail(rs))

\* _init_filters: self.filters = {} and the three default filters
InitFilters == RegisterAll(EmptyDict, InitFilterRegs)

\* the filters a fresh jinja2 Environment brings along
JinjaBuiltinFilters ==
    [tojson |-> [name |-> "tojson", by |-> "jinja2"],
     upper |-> [name |-> "upper", by |-> "jinja2"]]

DefaultPaths == <<"templates", ".", "/">>
DefaultPackages == <<"pywb">>

\* (variant: the package loaders come first)
MakeLoadersPackagesFirst(paths, packages) ==
    [i \in 1..Len(packages) |-> <<"pkg", packages[i]>>]
    \o [i \in 1..Len(paths) |-> <<"fs", paths[i]>>]

\* _make_loaders: a FileSystemLoader per path, then a PackageLoader per package
MakeLoaders(paths, packages) ==
    [i \in 1..Len(paths) |-> <<"fs", paths[i]>>]
    \o [i \in 1..Len(packages) |-> <<"pkg", packages[i]>>]

\* ChoiceLoader: the first loader, in order, that holds the template
FirstMatch(loaders, holders) ==
    LET hits == {i \in 1..Len(loaders) : loaders[i] \in holders}
    IN IF hits = {} THEN 0 ELSE CHOOSE i \in hits : \A j \in hits : i <= j

\* JinjaEnv.__init__ (without an overlay)
Construct(paths, packages) ==
    /\ ~jenv.constructed
    /\ jenv' = [constructed |-> TRUE,
                args |-> [paths |-> paths, packages |-> packages],
                filters |-> InitFilters,
                jinja_filters |-> Update(JinjaBuiltinFilters, InitFilters),
                loaders |-> MakeLoaders(IF paths = None THEN DefaultPaths ELSE paths[2],
                                        IF packages = None THEN DefaultPackages
                                        ELSE packages[2])]
    /\ regs' = InitFilterRegs
    /\ UNCHANGED <<banner_view, request, closure, last, resolved>>

\* jenv.template_filter(param)(func), called on the constructed JinjaEnv
RegisterFilter(param, func) ==
    /\ jenv.constructed
    /\ Len(regs) < Len(InitFilterRegs) + MaxRegs
    /\ jenv' = [jenv EXCEPT !.filters = TemplateFilter(@, param, func)]
    /\ regs' = Append(regs, [param |-> param, func |-> func])
    /\ UNCHANGED <<banner_view, request, closure, last, resolved>>

\* jinja_env.get_template(name), holders being the roots that hold the template
GetTemplate(holders) ==
    /\ jenv.constructed
    /\ LET i == FirstMatch(jenv.loaders, holders)
       IN last' = [op |-> "get_template", args |-> [holders |-> holders], rts |-> <<>>,
                   status |-> IF i = 0 THEN "error" ELSE "ok",
                   error |-> IF i = 0 THEN "TemplateNotFound" ELSE "",
                   out |-> IF i = 0 THEN "" ELSE jenv.loaders[i][1] \o ":" \o jenv.loaders[i][2]]
    /\ UNCHANGED <<banner_view, request, closure, jenv, regs, resolved>>

InitJenv == banner_view = FALSE /\ ViewsIdle /\ OthersIdle

FilterParams == {None, Str(""), Str("urlsplit"), Str("format_ts")}
FilterFuncs == {[name |-> "format_ts", by |-> "caller"], [name |-> "my_filter", by |-> "caller"]}

NextFilters ==
    \/ Construct(None, None)
    \/ \E param \in FilterParams, func \in FilterFuncs : RegisterFilter(param, func)

SpecFilters == InitJenv /\ [][NextFilters]_vars

SeqsUpTo(S, n) == UNION {[1..m -> S] : m \in 0..n}

PathArgs == {None} \cup {<<"list", ps>> : ps \in SeqsUpTo({"templates", "."}, MaxRoots)}
PackageArgs == {None} \cup {<<"list", ps>> : ps \in SeqsUpTo({"pywb", "other"}, MaxRoots)}

Roots == {<<"fs", "templates">>, <<"fs", ".">>, <<"fs", "/">>,
          <<"pkg", "pywb">>, <<"pkg", "other">>}

NextLoaders ==
    \/ \E paths \in PathArgs, packages \in PackageArgs : Construct(paths, packages)
    \/ \E holders \in SUBSET Roots : GetTemplate(holders)

SpecLoaders == InitJenv /\ [][NextLoaders]_vars

----------------------------------------------------------------------------
(* Properties of JinjaEnv *)

\* the name a registration is stored under
RegName(r) == IF r.param = None \/ r.param = Str("") THEN r.func.name ELSE r.param[2]

\* the function most recently registered under name among the first n registrations
LastRegistered(name, n) ==
    LET is == {i \in 1..n : RegName(regs[i]) = name}
    IN regs[CHOOSE i \in is : \A j \in is : j <= i].func

RegisteredNames(n) == {RegName(regs[i]) : i \in 1..n}

\* C9 as stated: after any registrations, those made after construction
\* included, the filter a render uses for a name is the function most recently
\* registered under that name.
C9_RenderUsesLastRegistered ==
    jenv.constructed =>
        \A name \in RegisteredNames(Len(regs)) :
            /\ name \in DOMAIN jenv.jinja_filters
            /\ jenv.jinja_filters[name] = LastRegistered(name, Len(regs))

\* C9, amended: template_filter stores a function under its own name when no
\* name (or an empty one) is given and under the given name otherwise, the last
\* registration under a name replacing the earlier ones in JinjaEnv.filters; the
\* filters a render uses are those registered by the time the JinjaEnv was
\* constructed (over jinja2's own): a registration made after construction
\* changes JinjaEnv.filters only, not the filter a render uses.
C9_RegistryLastWinsRenderAtConstruction ==
    jenv.constructed =>
        /\ DOMAIN jenv.filters = RegisteredNames(Len(regs))
        /\ \A name \in DOMAIN jenv.filters :
               jenv.filters[name] = LastRegistered(name, Len(regs))
        /\ \A name \in RegisteredNames(Len(InitFilterRegs)) :
               jenv.jinja_filters[name] = LastRegistered(name, Len(InitFilterRegs))
        /\ \A name \in DOMAIN jenv.jinja_filters \ RegisteredNames(Len(InitFilterRegs)) :
               jenv.jinja_filters[name].by = "jinja2"

\* format_ts was registered again after construction, under its own name and
\* then under a given name, and a new filter was added
C9_Witness ==
    /\ jenv.constructed
    /\ Len(regs) = Len(InitFilterRegs) + 3
    /\ regs[4].param = None /\ regs[4].func.name = "format_ts"
    /\ regs[5].param = Str("format_ts") /\ regs[5].func.name = "my_filter"
    /\ jenv.filters["format_ts"] = regs[5].func
    /\ "my_filter" \in DOMAIN jenv.filters

GivenPaths == IF jenv.args.paths = None THEN <<"templates", ".", "/">> ELSE jenv.args.paths[2]
GivenPackages == IF jenv.args.packages = None THEN <<"pywb">> ELSE jenv.args.packages[2]

\* C10 as stated: no root appears twice in the source list, even when the same
\* path or package is given more than once.
C10_Deduplicated ==
    jenv.constructed =>
        \A i, j \in 1..Len(jenv.loaders) : i # j => jenv.loaders[i] # jenv.loaders[j]

\* C10, amended: the source list holds one root per given search path, in the
\* given order, followed by one root per given package, in the given order, a
\* path or package given twice appearing twice; a lookup returns the first
\* root in this order that holds the template, and fails with TemplateNotFound
\* when none does. Without paths or packages the defaults are 'templates', '.',
\* '/' and 'pywb'.
C10_OrderedNotDeduplicated ==
    jenv.constructed =>
        /\ Len(jenv.loaders) = Len(GivenPaths) + Len(GivenPackages)
        /\ \A i \in 1..Len(GivenPaths) : jenv.loaders[i] = <<"fs", GivenPaths[i]>>
        /\ \A i \in 1..Len(GivenPackages) :
               jenv.loaders[Len(GivenPaths) + i] = <<"pkg", GivenPackages[i]>>
        /\ last.op = "get_template" =>
               IF \E i \in 1..Len(jenv.loaders) : jenv.loaders[i] \in last.args.holders
               THEN /\ last.status = "ok"
                    /\ \E i \in 1..Len(jenv.loaders) :
                          /\ jenv.loaders[i] \in last.args.holders
                          /\ \A j \in 1..(i - 1) : jenv.loaders[j] \notin last.args.holders
                          /\ last.out = jenv.loaders[i][1] \o ":" \o jenv.loaders[i][2]
               ELSE last.status = "error" /\ last.error = "TemplateNotFound"

\* a path given twice, and a template held by a package and by a later
\* directory: the directory's is returned
C10_Witness ==
    /\ jenv.constructed
    /\ jenv.args.paths = <<"list", <<".", ".">> >>
    /\ jenv.args.packages = <<"list", <<"other", "pywb">> >>
    /\ last.op = "get_template"
    /\ last.args.holders = {<<"fs", ".">>, <<"pkg", "pywb">>}
    /\ last.out = "fs:."

----------------------------------------------------------------------------
(* PkgResResolver *)

\* An item is a Python value; a str item is the sequence of the pieces of its
\* text: an optional scheme and ':', an optional '//' and host, a path.
Schemes == {"pkg", "http"}
Hosts == {"pywb", "other", "nopkg"}
Paths == {"/static/a.js", "/x.html", "/templates/index.html"}

OptPiece(ps) == {<<>>} \cup {<<x>> : x \in ps}

StrItems ==
    { Str(sch \o auth \o path) :
        sch \in {<<>>} \cup {<<x, ":">> : x \in Schemes},
        auth \in {<<>>} \cup {<<"//">> \o h : h \in OptPiece(Hosts)},
        path \in OptPiece(Paths) }

Items == StrItems \cup {Obj("Bundle"), None}

\* urlsplit(item): the scheme, netloc and path of a str item
UrlSplit(text) ==
    LET has_scheme == Len(text) >= 2 /\ text[2] = ":"
        rest == IF has_scheme THEN SubSeq(text, 3, Len(text)) ELSE text
        has_auth == Len(rest) >= 1 /\ rest[1] = "//"
        after == IF has_auth THEN Tail(rest) ELSE rest
        has_host == has_auth /\ Len(after) >= 1 /\ after[1] \in Hosts
        tail == IF has_host THEN Tail(after) ELSE after
    IN [scheme |-> IF has_scheme THEN text[1] ELSE "",
        netloc |-> IF has_host THEN after[1] ELSE "",
        path |-> IF tail = <<>> THEN "" ELSE tail[1]]

\* (variant: an empty netloc is accepted)
GetPkgPathAnyNetloc(item) ==
    IF item[1] # "str" THEN None
    ELSE IF UrlSplit(item[2]).scheme = "pkg"
         THEN <<"tuple", UrlSplit(item[2]).netloc, UrlSplit(item[2]).path>>
         ELSE None

\* get_pkg_path: (netloc, path) of a pkg:// item, None for any other item
GetPkgPath(item) ==
    IF item[1] # "str" THEN None
    ELSE LET parts == UrlSplit(item[2])
         IN IF parts.scheme = "pkg" /\ parts.netloc # ""
            THEN <<"tuple", parts.netloc, parts.path>>
            ELSE None

\* pkg_resources.resource_filename(pkg, path). rf is what it finds of the
\* package: "installed" (the package has a directory, and the name is the path
\* joined to it), "nofile" (a module without a file: its directory is '', and
\* the name is the path joined to '') or "raise" (no such package).
RfOutcomes == {"installed", "nofile", "raise"}
ResourceFilename(pkg, path, rf) ==
    CASE rf = "installed" -> "/site-packages/" \o pkg \o path
      [] rf = "nofile" -> path
      [] OTHER -> ""

\* the default Resolver.resolve_source answers df: "ok" or "raise"
DfOutcomes == {"ok", "raise"}
DefaultResolve(item, df) ==
    [status |-> IF df = "ok" THEN "ok" ELSE "error",
     result |-> IF df = "ok" THEN <<"default", item>> ELSE None]

\* resolve_source(ctx, item)
ResolveSource(item, rf, df) ==
    LET pkg == GetPkgPath(item)
        called == pkg # None
        filename == ResourceFilename(pkg[2], pkg[3], rf)
        d == DefaultResolve(item, df)
    IN /\ called \/ rf = "installed"
       /\ (called /\ (rf = "raise" \/ filename # "")) => df = "ok"
       /\ resolved' =
            IF called /\ rf = "raise"
            THEN [op |-> "resolve_source", item |-> item, rf |-> rf, delegated |-> FALSE,
                  status |-> "error", result |-> None]
            ELSE IF called /\ filename # ""
            THEN [op |-> "resolve_source", item |-> item, rf |-> rf, delegated |-> FALSE,
                  status |-> "ok", result |-> Str(filename)]
            ELSE [op |-> "resolve_source", item |-> item,
                  rf |-> IF called THEN rf ELSE "", delegated |-> TRUE,
                  status |-> d.status, result |-> d.result]
       /\ UNCHANGED <<banner_view, request, closure, last, jenv, regs>>

NextResolver ==
    \E item \in Items, rf \in RfOutcomes, df \in DfOutcomes : ResolveSource(item, rf, df)

SpecResolver == InitJenv /\ [][NextResolver]_vars

\* the last item has the form pkg://<packageName>/<relativePath>
PkgForm ==
    /\ resolved.item[1] = "str"
    /\ Len(resolved.item[2]) >= 4
    /\ resolved.item[2][1] = "pkg" /\ resolved.item[2][2] = ":"
    /\ resolved.item[2][3] = "//" /\ resolved.item[2][4] \in Hosts

PkgFormPath == IF Len(resolved.item[2]) >= 5 THEN resolved.item[2][5] ELSE ""

DelegatedUnchanged ==
    /\ resolved.delegated
    /\ resolved.status = "ok" => resolved.result = <<"default", resolved.item>>

\* C8 as stated: for a pkg://<packageName>/<relativePath> item the call returns
\* the path inside the package or fails; every other item is delegated to the
\* default resolver, whose result is returned unchanged.
C8_PkgPathOrFailure ==
    resolved.op = "resolve_source" =>
        IF PkgForm
        THEN /\ ~resolved.delegated
             /\ resolved.status = "ok" =>
                    resolved.result \in
                        {Str("/site-packages/" \o resolved.item[2][4] \o PkgFormPath),
                         Str(PkgFormPath)}
        ELSE DelegatedUnchanged

\* C8, amended: for a pkg://<packageName>/<relativePath> item the call returns
\* the name resource_filename gives for the path in the package when that name
\* is not empty, fails with resource_filename's error when it raises, and
\* delegates to the default resolver when the name is empty (a package
\* without a directory and an empty path); every other item
\* is delegated to the default resolver without asking resource_filename, and
\* the default resolver's result or failure is returned unchanged.
C8_PkgPathFailureOrDelegation ==
    resolved.op = "resolve_source" =>
        IF PkgForm
        THEN CASE resolved.rf = "raise" ->
                    ~resolved.delegated /\ resolved.status = "error"
               [] resolved.rf = "installed" ->
                    /\ ~resolved.delegated /\ resolved.status = "ok"
                    /\ resolved.result =
                           Str("/site-packages/" \o resolved.item[2][4] \o PkgFormPath)
               [] resolved.rf = "nofile" /\ PkgFormPath # "" ->
                    /\ ~resolved.delegated /\ resolved.status = "ok"
                    /\ resolved.result = Str(PkgFormPath)
               [] OTHER -> resolved.rf = "nofile" /\ DelegatedUnchanged
        ELSE resolved.rf = "" /\ DelegatedUnchanged

\* a pkg:// item whose file name resource_filename gives
C8_Witness ==
    /\ resolved.op = "resolve_source"
    /\ resolved.item = Str(<<"pkg", ":", "//", "pywb", "/static/a.js">>)
    /\ resolved.status = "ok" /\ ~resolved.delegated
    /\ resolved.result = Str("/site-packages/pywb/static/a.js")

====
